---- MODULE Spec2Model ----
(***************************************************************************)
(* A model of codestats-box: the level calculator, the statistics model,   *)
(* the line and content formatters, the Code::Stats fetch client and the   *)
(* gist updater.                                                           *)
(***************************************************************************)
EXTENDS Integers, Sequences, FiniteSets, TLC

VARIABLES
    argXp,          \* calculate_level: the argument of the call
    levelOut,       \* calculate_level: what the call returned or raised

    data,           \* from_api_response: the payload handed to the constructor
    built,          \* from_api_response: the UserStats built or the exception
    pc,             \* get_user_stats: "idle", "call", "check" or "done"
    attempt_number, \* get_user_stats: read requests issued so far
    response,       \* get_user_stats: what the last read request met
    transient,      \* get_user_stats: every request so far timed out or lost the network
    last,           \* get_user_stats: what the last run of the body returned or raised
    outcome,        \* get_user_stats: what the caller gets
    line,           \* FormattedLine.format: the line, the separator and the width
    rendered,       \* FormattedLine.format: the string returned
    settings,       \* format_content: stats_type, top_languages_count, max_line_length
    stats,          \* format_content: the UserStats to format
    formatted,      \* format_content: the string returned
    gist,           \* the remote gist: its files in order, each a label and a body
    calls,          \* update_gist: calls made so far
    call,           \* update_gist: the last call, its arguments and what it did
    prevCall,       \* update_gist: the call before the last
    step,           \* run: the statement it is at, "idle" or "done"
    exit_code,      \* run: the value returned, -1 until it returns
    requests,       \* run: the remote requests issued so far, in order
    interrupted     \* run: a KeyboardInterrupt was raised in it

levelVars == <<argXp, levelOut>>
modelVars == <<data, built>>
fetchVars == <<pc, attempt_number, response, transient, last, outcome>>
lineVars == <<line, rendered>>
formatVars == <<settings, stats, formatted>>
gistVars == <<gist, calls, call, prevCall>>
runVars == <<step, exit_code, requests, interrupted>>
vars == <<levelVars, modelVars, fetchVars, lineVars, formatVars, gistVars, runVars>>

(***************************************************************************)
(* Python integers are unbounded and math.sqrt / float multiplication work *)
(* on IEEE-754 binary64 values.  Unbounded naturals are little-endian      *)
(* sequences of 15-bit limbs without high zero limbs (<<>> is zero); a     *)
(* float is a pair (m, e) standing for m * 2^e with m < 2^53 + 1.          *)
(***************************************************************************)
Base == 2^15

Limb(a, i) == IF i <= Len(a) THEN a[i] ELSE 0

RECURSIVE Zeros(_)
Zeros(k) == IF k <= 0 THEN <<>> ELSE <<0>> \o Zeros(k - 1)

RECURSIVE BNorm(_)
BNorm(a) ==
    IF a = <<>> THEN <<>>
    ELSE IF a[Len(a)] = 0 THEN BNorm(SubSeq(a, 1, Len(a) - 1))
    ELSE a

RECURSIVE IntToBig(_)
IntToBig(n) == IF n = 0 THEN <<>> ELSE <<n % Base>> \o IntToBig(n \div Base)

RECURSIVE BigToInt(_)
BigToInt(a) == IF a = <<>> THEN 0 ELSE Head(a) + Base * BigToInt(Tail(a))

RECURSIVE BAddFrom(_, _, _, _)
BAddFrom(a, b, i, c) ==
    IF i > Len(a) /\ i > Len(b)
    THEN IF c = 0 THEN <<>> ELSE <<c>>
    ELSE LET s == Limb(a, i) + Limb(b, i) + c
         IN  <<s % Base>> \o BAddFrom(a, b, i + 1, s \div Base)

BAdd(a, b) == BAddFrom(a, b, 1, 0)

RECURSIVE BMulLimbFrom(_, _, _, _)
BMulLimbFrom(a, d, i, c) ==
    IF i > Len(a)
    THEN IF c = 0 THEN <<>> ELSE <<c>>
    ELSE LET p == a[i] * d + c
         IN  <<p % Base>> \o BMulLimbFrom(a, d, i + 1, p \div Base)

RECURSIVE BMulFrom(_, _, _)
BMulFrom(a, b, j) ==
    IF j > Len(b) THEN <<>>
    ELSE BAdd(BNorm(Zeros(j - 1) \o BMulLimbFrom(a, b[j], 1, 0)),
              BMulFrom(a, b, j + 1))

BMul(a, b) == IF a = <<>> \/ b = <<>> THEN <<>> ELSE BNorm(BMulFrom(a, b, 1))

RECURSIVE BCmpFrom(_, _, _)
BCmpFrom(a, b, i) ==
    IF i = 0 THEN 0
    ELSE IF a[i] < b[i] THEN -1
    ELSE IF a[i] > b[i] THEN 1
    ELSE BCmpFrom(a, b, i - 1)

\* -1, 0 or 1 as a < b, a = b or a > b
BCmp(a, b) ==
    IF Len(a) < Len(b) THEN -1
    ELSE IF Len(a) > Len(b) THEN 1
    ELSE BCmpFrom(a, b, Len(a))

BLeq(a, b) == BCmp(a, b) <= 0
BLess(a, b) == BCmp(a, b) < 0

BPow2(k) == Zeros(k \div 15) \o <<2^(k % 15)>>

\* a * 2^k
BShl(a, k) ==
    IF a = <<>> THEN <<>> ELSE Zeros(k \div 15) \o BMulLimbFrom(a, 2^(k % 15), 1, 0)

RECURSIVE BShrFrom(_, _, _)
BShrFrom(a, r, i) ==
    IF i > Len(a) THEN <<>>
    ELSE <<(a[i] \div 2^r) + (Limb(a, i + 1) % 2^r) * 2^(15 - r)>>
         \o BShrFrom(a, r, i + 1)

\* floor(a / 2^k)
BShr(a, k) == BNorm(BShrFrom(a, k % 15, (k \div 15) + 1))

RECURSIVE LimbBits(_)
LimbBits(d) == IF d = 0 THEN 0 ELSE 1 + LimbBits(d \div 2)

BitLen(a) == IF a = <<>> THEN 0 ELSE 15 * (Len(a) - 1) + LimbBits(a[Len(a)])

BIsOdd(a) == a # <<>> /\ a[1] % 2 = 1

\* the natural number written with the given decimal digits
RECURSIVE BigFromDec(_)
BigFromDec(digits) ==
    IF digits = <<>> THEN <<>>
    ELSE BAdd(BMul(BigFromDec(SubSeq(digits, 1, Len(digits) - 1)), <<10>>),
              IntToBig(digits[Len(digits)]))

RECURSIVE BSubFrom(_, _, _, _)
BSubFrom(a, b, i, borrow) ==
    IF i > Len(a) THEN <<>>
    ELSE LET d == a[i] - Limb(b, i) - borrow
         IN  IF d < 0
             THEN <<d + Base>> \o BSubFrom(a, b, i + 1, 1)
             ELSE <<d>> \o BSubFrom(a, b, i + 1, 0)

\* a - b for a >= b
BSub(a, b) == BNorm(BSubFrom(a, b, 1, 0))

\* bit k of a (bit 0 is the lowest)
BitAt(a, k) == (Limb(a, (k \div 15) + 1) \div 2^(k % 15)) % 2

\* the square root of n with its remainder, two bits of n at a time from the
\* top: root and rem are those of the bits above pair number hi; the pairs
\* hi down to lo are taken in
RECURSIVE ISqrtPairs(_, _, _, _, _)
ISqrtPairs(n, root, rem, hi, lo) ==
    IF hi < lo THEN [root |-> root, rem |-> rem]
    ELSE LET rem2  == BMulLimbFrom(rem, 4, 1, 2 * BitAt(n, 2 * hi + 1) + BitAt(n, 2 * hi))
             trial == BMulLimbFrom(root, 4, 1, 1)
         IN  IF BLeq(trial, rem2)
             THEN ISqrtPairs(n, BMulLimbFrom(root, 2, 1, 1), BSub(rem2, trial), hi - 1, lo)
             ELSE ISqrtPairs(n, BMulLimbFrom(root, 2, 1, 0), rem2, hi - 1, lo)

RECURSIVE ISqrtGroups(_, _, _)
ISqrtGroups(n, sofar, g) ==
    IF g < 0 THEN sofar
    ELSE ISqrtGroups(n, ISqrtPairs(n, sofar.root, sofar.rem, 8 * g + 7, 8 * g), g - 1)

\* [root |-> floor(sqrt(n)), rem |-> n - root * root]
ISqrtRem(n) == ISqrtGroups(n, [root |-> <<>>, rem |-> <<>>], BitLen(n) \div 16)

(***************************************************************************)
(* binary64: 53 significant bits, round to nearest, ties to even; a value  *)
(* of 2^1024 or more does not exist.                                       *)
(***************************************************************************)
\* n * 2^e rounded to 53 significant bits
RoundToFloat(n, e) ==
    LET len == BitLen(n)
    IN  IF len <= 53 THEN [m |-> n, e |-> e]
        ELSE LET k   == len - 53
                 q   == BShr(n, k)
                 mid == BShl(BAdd(BShl(q, 1), <<1>>), k - 1)
                 c   == BCmp(n, mid)
                 up  == c > 0 \/ (c = 0 /\ BIsOdd(q))
             IN  [m |-> IF up THEN BAdd(q, <<1>>) ELSE q, e |-> e + k]

FloatIsFinite(f) == BitLen(f.m) + f.e <= 1024

FMul(a, b) == RoundToFloat(BMul(a.m, b.m), a.e + b.e)

\* the correctly rounded square root of a float: the root of the mantissa
\* scaled to 105 or 106 bits has 53 bits, and it is rounded up when the
\* remainder puts the exact root above root + 1/2
FSqrt(f) ==
    IF f.m = <<>> THEN f
    ELSE LET len == BitLen(f.m)
             j0  == 106 - len
             j   == IF (f.e - j0) % 2 = 0 THEN j0 ELSE j0 - 1
             sr  == ISqrtRem(BShl(f.m, j))
             up  == BLess(sr.root, sr.rem)
         IN  [m |-> IF up THEN BAdd(sr.root, <<1>>) ELSE sr.root,
              e |-> (f.e - j) \div 2]

\* math.floor of a finite non-negative float, an unbounded integer
FFloor(f) == IF f.e >= 0 THEN BShl(f.m, f.e) ELSE BShr(f.m, 0 - f.e)

\* the literal 0.025: 0x1.999999999999ap-6
Float0025 == [m |-> <<6554, 13107, 26214, 204>>, e |-> 0 - 58]

(***************************************************************************)
(* Python values as they come out of response.json(): t is the type, and   *)
(* an "int" carries its sign and magnitude.  A call either returns a value *)
(* or raises an exception.                                                 *)
(***************************************************************************)
PyInt(n) == [t |-> "int", neg |-> n < 0, mag |-> IntToBig(IF n < 0 THEN 0 - n ELSE n)]
PyBig(a) == [t |-> "int", neg |-> FALSE, mag |-> a]
PyOther(t) == [t |-> t, neg |-> FALSE, mag |-> <<>>]

\* the value of a small "int"
ToInt(x) == IF x.neg THEN 0 - BigToInt(x.mag) ELSE BigToInt(x.mag)

Return(v) == [exc |-> "None", val |-> v]
Raise(e, v) == [exc |-> e, val |-> v]

\* utils.calculate_level: floor(0.025 * sqrt(xp)) in binary64
calculate_level(xp) ==
    IF xp.t # "int" THEN Raise("TypeError", PyInt(0))
    ELSE IF xp.neg THEN Return(PyInt(0))
    ELSE LET x == RoundToFloat(xp.mag, 0)
         IN  IF ~FloatIsFinite(x) THEN Raise("OverflowError", PyInt(0))
             ELSE Return(PyBig(FFloor(FMul(Float0025, FSqrt(x)))))

(***************************************************************************)
(* The JSON payload.  A field of a mapping is a Python value or is absent; *)
(* the languages mapping keeps the payload's order of keys.                *)
(***************************************************************************)
Absent == PyOther("absent")

\* dict.get(key, 0) on a field
GetOrZero(field) == IF field.t = "absent" THEN PyInt(0) ELSE field

LangData(name, t, xps, new_xps) ==
    [name |-> name, t |-> t, xps |-> xps, new_xps |-> new_xps]

LangsField(t, items) == [t |-> t, items |-> items]

\* what response.json() returned: a mapping (t = "dict") with its three fields,
\* or some other JSON value
Payload(t, total_xp, new_xp, languages) ==
    [t |-> t, total_xp |-> total_xp, new_xp |-> new_xp, languages |-> languages]

NoLanguages == LangsField("absent", <<>>)

MkLanguageStats(name, xp, new_xp, level) ==
    [name |-> name, xp |-> xp, new_xp |-> new_xp, level |-> level]

MkUserStats(username, total_xp, new_xp, level, languages) ==
    [username |-> username, total_xp |-> total_xp, new_xp |-> new_xp,
     level |-> level, languages |-> languages]

NoStats == MkUserStats("", PyInt(0), PyInt(0), PyInt(0), <<>>)
NoLang == MkLanguageStats(<<>>, PyInt(0), PyInt(0), PyInt(0))

\* the end of LanguageStats.from_api_response: cls(name, xp, new_xp, level),
\* unless calculate_level raised
LanguageStats_cls(name, xp, new_xp, level) ==
    IF level.exc # "None" THEN Raise(level.exc, NoLang)
    ELSE Return(MkLanguageStats(name, xp, new_xp, level.val))

\* LanguageStats.from_api_response(name, data)
LanguageStats_from_api_response(name, lang_data) ==
    IF lang_data.t # "dict" THEN Raise("AttributeError", NoLang)
    ELSE LET xp     == GetOrZero(lang_data.xps)
             new_xp == GetOrZero(lang_data.new_xps)
         IN  LanguageStats_cls(name, xp, new_xp, calculate_level(xp))

\* the list with `one` in front of `rest`, unless building `rest` raised
PrependLanguage(one, rest) ==
    IF rest.exc # "None" THEN rest ELSE Return(<<one.val>> \o rest.val)

\* the list comprehension over languages_data.items(): the LanguageStats of
\* the items from the i-th on, up to the first one that raises; `one` is the
\* LanguageStats of the i-th
RECURSIVE LanguagesFrom(_, _)
LanguagesAfter(one, items, i) ==
    IF one.exc # "None" THEN Raise(one.exc, <<>>)
    ELSE PrependLanguage(one, LanguagesFrom(items, i + 1))

LanguagesFrom(items, i) ==
    IF i > Len(items) THEN Return(<<>>)
    ELSE LanguagesAfter(LanguageStats_from_api_response(items[i].name, items[i]),
                        items, i)

\* the end of UserStats.from_api_response: cls(username, ..., languages),
\* unless the list comprehension raised
UserStats_cls(username, total_xp, new_xp, level, languages) ==
    IF languages.exc # "None" THEN Raise(languages.exc, NoStats)
    ELSE Return(MkUserStats(username, total_xp, new_xp, level.val, languages.val))

\* UserStats.from_api_response after level = calculate_level(total_xp)
UserStats_languages(username, total_xp, new_xp, level, languages_data) ==
    IF level.exc # "None" THEN Raise(level.exc, NoStats)
    ELSE IF languages_data.t # "dict" THEN Raise("AttributeError", NoStats)
    ELSE UserStats_cls(username, total_xp, new_xp, level,
                       LanguagesFrom(languages_data.items, 1))

\* UserStats.from_api_response(username, data)
UserStats_from_api_response(username, d) ==
    IF d.t # "dict" THEN Raise("AttributeError", NoStats)
    ELSE LET total_xp == GetOrZero(d.total_xp)
             new_xp   == GetOrZero(d.new_xp)
             languages_data ==
                 IF d.languages.t = "absent" THEN LangsField("dict", <<>>)
                 ELSE d.languages
         IN  UserStats_languages(username, total_xp, new_xp,
                                 calculate_level(total_xp), languages_data)

(***************************************************************************)
(* Exceptions: the classes of httpx, json, the builtins and exceptions.py  *)
(* that get_user_stats can meet, each with its base class.                 *)
(***************************************************************************)
BaseClass(e) ==
    CASE e = "ReadTimeout"       -> "TimeoutException"
      [] e = "TimeoutException"  -> "TransportError"
      [] e = "ConnectError"      -> "NetworkError"
      [] e = "NetworkError"      -> "TransportError"
      [] e = "TransportError"    -> "RequestError"
      [] e = "TooManyRedirects"  -> "RequestError"
      [] e = "RequestError"      -> "HTTPError"
      [] e = "HTTPStatusError"   -> "HTTPError"
      [] e = "JSONDecodeError"   -> "ValueError"
      [] e = "OverflowError"     -> "ArithmeticError"
      [] e = "KeyError"          -> "LookupError"
      [] e = "CodeStatsAPIError" -> "APIError"
      [] e = "GitHubAPIError"    -> "APIError"
      [] e = "APIError"          -> "CodeStatsBoxError"
      [] e = "ConfigurationError"  -> "CodeStatsBoxError"
      [] e = "DataValidationError" -> "CodeStatsBoxError"
      [] e = "ValidationError"   -> "ValueError"
      [] e = "KeyboardInterrupt" -> "BaseException"
      [] e = "Exception"         -> "BaseException"
      [] e = "BaseException"     -> "object"
      [] OTHER                   -> "Exception"

RECURSIVE IsInstance(_, _)
IsInstance(e, class) ==
    \/ e = class
    \/ e # "object" /\ IsInstance(BaseClass(e), class)

(***************************************************************************)
(* The fetch client.  A read request meets a transport failure (kind is    *)
(* the httpx exception) or an HTTP response with a status and a body.      *)
(***************************************************************************)
Response(kind, status, body) == [kind |-> kind, status |-> status, body |-> body]

NoBody == Payload("malformed", Absent, Absent, NoLanguages)

\* the body of get_user_stats up to its except clauses: what the try block
\* returns or raises
TryFetch(username, resp) ==
    IF resp.kind # "http" THEN Raise(resp.kind, NoStats)
    ELSE IF resp.status \notin 200..299 THEN Raise("HTTPStatusError", NoStats)
    ELSE IF resp.body.t = "malformed" THEN Raise("JSONDecodeError", NoStats)
    ELSE IF resp.body.t # "dict" THEN Raise("AttributeError", NoStats)
    ELSE IF resp.body.languages.t \in {"null", "int"} THEN Raise("TypeError", NoStats)
    ELSE UserStats_from_api_response(username, resp.body)

\* the except clauses of get_user_stats
Caught(e) ==
    \/ IsInstance(e, "HTTPStatusError")
    \/ IsInstance(e, "RequestError")
    \/ IsInstance(e, "KeyError") \/ IsInstance(e, "ValueError") \/ IsInstance(e, "TypeError")

\* what leaves get_user_stats when its try block ended as r: an exception
\* an except clause catches is replaced by CodeStatsAPIError
ExceptClauses(r) ==
    IF r.exc # "None" /\ Caught(r.exc) THEN Raise("CodeStatsAPIError", NoStats)
    ELSE r

\* one run of the undecorated get_user_stats
get_user_stats(username, resp) == ExceptClauses(TryFetch(username, resp))

\* stop=stop_after_attempt(3)
StopAfterAttempt == 3

\* a retry predicate that also takes the error get_user_stats raises itself
RetryIfExceptionType_with_api_error(e) ==
    \/ IsInstance(e, "TimeoutException") \/ IsInstance(e, "NetworkError")
    \/ IsInstance(e, "CodeStatsAPIError")

\* retry=retry_if_exception_type((httpx.TimeoutException, httpx.NetworkError))
RetryIfExceptionType(e) ==
    IsInstance(e, "TimeoutException") \/ IsInstance(e, "NetworkError")


(***************************************************************************)
(* Strings are sequences of characters.                                    *)
(***************************************************************************)
RECURSIVE Repeat(_, _)
Repeat(c, n) == IF n <= 0 THEN <<>> ELSE <<c>> \o Repeat(c, n - 1)

Max(a, b) == IF a >= b THEN a ELSE b

DigitChars == <<"0", "1", "2", "3", "4", "5", "6", "7", "8", "9">>

\* str(n) for n >= 0
RECURSIVE Digits(_)
Digits(n) ==
    IF n < 10 THEN <<DigitChars[n + 1]>>
    ELSE Digits(n \div 10) \o <<DigitChars[(n % 10) + 1]>>

\* format(n, ",") for n >= 0
RECURSIVE Grouped(_)
Grouped(n) ==
    IF n < 1000 THEN Digits(n)
    ELSE Grouped(n \div 1000) \o <<",">> \o Repeat("0", 3 - Len(Digits(n % 1000)))
         \o Digits(n % 1000)

\* f"{n:>{width},}"
FormatGrouped(n, width) ==
    LET text == IF n < 0 THEN <<"-">> \o Grouped(0 - n) ELSE Grouped(n)
    IN  Repeat(" ", width - Len(text)) \o text

\* f"{n:>{width}}"
FormatPlain(n, width) ==
    LET text == IF n < 0 THEN <<"-">> \o Digits(0 - n) ELSE Digits(n)
    IN  Repeat(" ", width - Len(text)) \o text

\* utils.format_xp_value(xp, level, new_xp); new_xp is None when not given
format_xp_value(xp, level, new_xp) ==
    LET base == <<"l", "v", "l", " ">> \o FormatPlain(ToInt(level), 3) \o <<" ", "(">>
                \o FormatGrouped(ToInt(xp), 9) \o <<" ", "X", "P">> \o <<")">>
    IN  IF new_xp.t # "None" /\ ToInt(new_xp) > 0
        THEN base \o <<" ", "(", "+">> \o FormatGrouped(ToInt(new_xp), 6) \o <<")">>
        ELSE base

\* utils.format_xp_only(xp)
format_xp_only(xp) == FormatGrouped(ToInt(xp), 9) \o <<" ", "X", "P">>

(***************************************************************************)
(* models.FormattedLine                                                    *)
(***************************************************************************)
FormattedLine(title, value) == [title |-> title, value |-> value]

\* a format without the floor of one separator
FormattedLine_format_unclamped(self, separator, width) ==
    LET available_space == width - Len(self.title) - Len(self.value) - 2
        sep == <<" ">> \o Repeat(separator, available_space) \o <<" ">>
    IN  self.title \o sep \o self.value

\* FormattedLine.format(separator, width)
FormattedLine_format(self, separator, width) ==
    LET available_space == width - Len(self.title) - Len(self.value) - 2
        sep == <<" ">> \o Repeat(separator, Max(available_space, 1)) \o <<" ">>
    IN  self.title \o sep \o self.value

(***************************************************************************)
(* formatter.GistFormatter                                                 *)
(***************************************************************************)
Settings(stats_type, top_languages_count, max_line_length) ==
    [stats_type |-> stats_type, top_languages_count |-> top_languages_count,
     max_line_length |-> max_line_length]

GIST_TITLES(stats_type) ==
    CASE stats_type = "level-xp"  -> "My Code::Stats XP (Top Languages)"
      [] stats_type = "recent-xp" -> "My Code::Stats XP (Recent Languages)"
      [] stats_type = "xp"        -> "My Code::Stats XP (Top Languages)"

NO_RECENT_ACTIVITY ==
    <<FormattedLine(<<"N", "o", "t", " ", "b", "e", "e", "n", " ", "c", "o", "d", "i", "n", "g", " ", "r", "e", "c", "e", "n", "t", "l", "y">>, <<"see-no-evil">>),
      FormattedLine(
                    <<"P", "r", "o", "b", "a", "b", "l", "y", " ", "b", "u", "s", "y", " ", "w", "i", "t", "h", " ", "s", "o", "m", "e", "t", "h", "i", "n", "g", " ", "e", "l", "s", "e">>, <<"calendar">>),
      FormattedLine(<<"O", "r", " ", "j", "u", "s", "t", " ", "t", "a", "k", "i", "n", "g", " ", "a", " ", "b", "r", "e", "a", "k">>, <<"palm-tree">>),
      FormattedLine(<<"B", "u", "t", " ", "w", "o", "u", "l", "d", " ", "b", "e", " ", "b", "a", "c", "k", " ", "t", "o", " ", "i", "t", " ", "s", "o", "o", "n", "!">>, <<"nerd-face">>)>>

get_title(s) == GIST_TITLES(s.stats_type)

\* a sort that puts an index before the placed indices of the same key
RECURSIVE InsertDesc_ties_first(_, _, _)
InsertDesc_ties_first(placed, keys, j) ==
    IF placed = <<>> THEN <<j>>
    ELSE IF keys[Head(placed)] > keys[j]
         THEN <<Head(placed)>> \o InsertDesc_ties_first(Tail(placed), keys, j)
         ELSE <<j>> \o placed

\* where sorted(..., reverse=True) puts index j among the indices placed so
\* far: behind every index whose key is at least j's
RECURSIVE InsertDesc(_, _, _)
InsertDesc(placed, keys, j) ==
    IF placed = <<>> THEN <<j>>
    ELSE IF keys[Head(placed)] >= keys[j]
         THEN <<Head(placed)>> \o InsertDesc(Tail(placed), keys, j)
         ELSE <<j>> \o placed

RECURSIVE SortedDescFrom(_, _, _)
SortedDescFrom(placed, keys, j) ==
    IF j > Len(keys) THEN placed
    ELSE SortedDescFrom(InsertDesc(placed, keys, j), keys, j + 1)

\* sorted(items, key=..., reverse=True), a stable sort, given the items' keys
SortedDesc(items, keys) ==
    LET order == SortedDescFrom(<<>>, keys, 1)
    IN  [i \in 1..Len(items) |-> items[order[i]]]

\* items[:n]
Prefix(items, n) == SubSeq(items, 1, IF n < Len(items) THEN n ELSE Len(items))

_format_total_line(s, st) ==
    LET value == IF s.stats_type = "xp" THEN format_xp_only(st.total_xp)
                 ELSE IF s.stats_type = "recent-xp"
                      THEN format_xp_value(st.total_xp, st.level, st.new_xp)
                      ELSE format_xp_value(st.total_xp, st.level, PyOther("None"))
    IN  FormattedLine(<<"T", "o", "t", "a", "l", " ", "X", "P">>, value)

_format_language_line(s, lang) ==
    LET value == IF s.stats_type = "xp" THEN format_xp_only(lang.xp)
                 ELSE IF s.stats_type = "recent-xp"
                      THEN format_xp_value(lang.xp, lang.level, lang.new_xp)
                      ELSE format_xp_value(lang.xp, lang.level, PyOther("None"))
    IN  FormattedLine(lang.name, value)

IsActive(lang) == ToInt(lang.new_xp) > 0

\* language lines that fall back to the placeholder only when the user has
\* no languages at all
_format_language_lines_placeholder_if_no_languages(s, languages) ==
    LET active_languages == SelectSeq(languages, IsActive)
        sorted_languages ==
            IF s.stats_type = "recent-xp"
            THEN Prefix(SortedDesc(active_languages,
                                   [i \in 1..Len(active_languages) |->
                                       ToInt(active_languages[i].new_xp)]),
                        s.top_languages_count)
            ELSE Prefix(SortedDesc(languages,
                                   [i \in 1..Len(languages) |-> ToInt(languages[i].xp)]),
                        s.top_languages_count)
    IN  IF s.stats_type = "recent-xp" /\ languages = <<>>
        THEN NO_RECENT_ACTIVITY
        ELSE [i \in 1..Len(sorted_languages) |->
                 _format_language_line(s, sorted_languages[i])]

\* GistFormatter._format_language_lines(languages)
_format_language_lines(s, languages) ==
    LET active_languages == SelectSeq(languages, IsActive)
        sorted_languages ==
            IF s.stats_type = "recent-xp"
            THEN Prefix(SortedDesc(active_languages,
                                   [i \in 1..Len(active_languages) |->
                                       ToInt(active_languages[i].new_xp)]),
                        s.top_languages_count)
            ELSE Prefix(SortedDesc(languages,
                                   [i \in 1..Len(languages) |-> ToInt(languages[i].xp)]),
                        s.top_languages_count)
    IN  IF s.stats_type = "recent-xp" /\ sorted_languages = <<>>
        THEN NO_RECENT_ACTIVITY
        ELSE [i \in 1..Len(sorted_languages) |->
                 _format_language_line(s, sorted_languages[i])]

_get_formatted_lines(s, st) ==
    <<_format_total_line(s, st)>> \o _format_language_lines(s, st.languages)

\* "\n".join(parts)
RECURSIVE JoinLines(_)
JoinLines(parts) ==
    IF parts = <<>> THEN <<>>
    ELSE IF Len(parts) = 1 THEN parts[1]
    ELSE parts[1] \o <<"\n">> \o JoinLines(Tail(parts))

format_content(s, st) ==
    LET lines == _get_formatted_lines(s, st)
    IN  JoinLines([i \in 1..Len(lines) |->
                     FormattedLine_format(lines[i], ":", s.max_line_length)])


(***************************************************************************)
(* gist.GistUpdater.  The remote gist is the ordered mapping of its files; *)
(* a call of update_gist reads it once and edits it at most once.          *)
(***************************************************************************)
GistFile(label, body) == [label |-> label, body |-> body]

\* gist.edit(files={old_title: InputFileContent(content, title)}) as the
\* store applies it: the file named old_title gets the new name and content
\* where it stands, and takes the place of any other file of that name
edit(files, old_title, content, title) ==
    LET Keeps(f) == f.label = old_title \/ f.label # title
        kept == SelectSeq(files, Keeps)
    IN  [i \in 1..Len(kept) |->
            IF kept[i].label = old_title THEN GistFile(title, content) ELSE kept[i]]

\* a check that looks at the content only
IsUnchanged_content_only(old_file, title, content) == old_file.body = content

\* the check `current_content == content and old_title == title`
IsUnchanged(old_file, title, content) ==
    old_file.body = content /\ old_file.label = title

\* a call: its arguments, the files before it, whether its read of the gist
\* went through, what it returned or raised, and the requests it issued
CallRecord(title, content, before, fetched, result, reads, writes) ==
    [title |-> title, content |-> content, before |-> before, fetched |-> fetched,
     result |-> result, reads |-> reads, writes |-> writes]

NoCall == CallRecord("", "", <<>>, FALSE, "none", 0, 0)

\* `except Exception as e: raise GitHubAPIError(...) from e`: what leaves
\* update_gist when get_gist or gist.edit raised e
ExceptException(e) == IF IsInstance(e, "Exception") THEN "GitHubAPIError" ELSE e

\* an update_gist that sends the content without the new file name:
\* gist.edit(files={old_title: InputFileContent(content)})
update_gist_without_rename(files, title, content, get_gist_exc, edit_exc) ==
    IF get_gist_exc # "None"
    THEN [did |-> CallRecord(title, content, files, FALSE, ExceptException(get_gist_exc), 1, 0),
          files |-> files]
    ELSE IF files = <<>>
    THEN [did |-> CallRecord(title, content, files, TRUE, "GitHubAPIError", 1, 0),
          files |-> files]
    ELSE IF IsUnchanged(files[1], title, content)
    THEN [did |-> CallRecord(title, content, files, TRUE, "False", 1, 0), files |-> files]
    ELSE IF edit_exc = "None"
    THEN [did |-> CallRecord(title, content, files, TRUE, "True", 1, 1),
          files |-> edit(files, files[1].label, content, files[1].label)]
    ELSE [did |-> CallRecord(title, content, files, TRUE, ExceptException(edit_exc), 1, 1),
          files |-> files]

\* update_gist(title, content) on the gist `files`; get_gist_exc and edit_exc
\* are what get_gist and gist.edit raise ("None": nothing; a write that
\* raises is one the store did not apply).  What the call did, and the files
\* afterwards.
update_gist(files, title, content, get_gist_exc, edit_exc) ==
    IF get_gist_exc # "None"
    THEN [did |-> CallRecord(title, content, files, FALSE, ExceptException(get_gist_exc), 1, 0),
          files |-> files]
    ELSE IF files = <<>>
    THEN [did |-> CallRecord(title, content, files, TRUE, "GitHubAPIError", 1, 0),
          files |-> files]
    ELSE IF IsUnchanged(files[1], title, content)
    THEN [did |-> CallRecord(title, content, files, TRUE, "False", 1, 0), files |-> files]
    ELSE IF edit_exc = "None"
    THEN [did |-> CallRecord(title, content, files, TRUE, "True", 1, 1),
          files |-> edit(files, files[1].label, content, title)]
    ELSE [did |-> CallRecord(title, content, files, TRUE, ExceptException(edit_exc), 1, 1),
          files |-> files]


(***************************************************************************)
(* cli.run: load the settings, fetch, format, update the gist, and turn    *)
(* whatever is raised on the way into an exit code.                        *)
(***************************************************************************)
\* a new_xp that `new_xp > 0` cannot compare with 0
NotComparable(new_xp) == new_xp.t \notin {"int", "null"}

\* formatter.format_content(stats) as run meets it: in recent-xp mode the
\* total line (`new_xp is not None and new_xp > 0`) and the filter
\* `lang.new_xp > 0` raise TypeError on a new_xp that is no number
formatter_format_content(s, st) ==
    IF /\ s.stats_type = "recent-xp"
       /\ \/ NotComparable(st.new_xp)
          \/ \E i \in 1..Len(st.languages) : st.languages[i].new_xp.t # "int"
    THEN Raise("TypeError", <<>>)
    ELSE Return(format_content(s, st))

\* the requests one call of update_gist issued, in order
GistRequests(did) ==
    (IF did.reads = 1 THEN <<"gist-read">> ELSE <<>>)
    \o (IF did.writes = 1 THEN <<"gist-write">> ELSE <<>>)

\* an except clause that takes every BaseException for an error
run_except_base_exception(e) == 1

\* the except clauses of run: the exit code for the exception e that left
\* the try block
run_except(e) ==
    IF IsInstance(e, "ValidationError") THEN 1
    ELSE IF IsInstance(e, "CodeStatsBoxError") THEN 1
    ELSE IF IsInstance(e, "KeyboardInterrupt") THEN 130
    ELSE IF IsInstance(e, "Exception") THEN 1
    ELSE 0 - 1

\* a try block that goes on with empty statistics when the fetch failed
run_goes_on_after_api_error(e) == e = "None" \/ IsInstance(e, "CodeStatsAPIError")

\* the try block of run goes on to its next statement when the statement
\* before it raised nothing
run_goes_on(e) == e = "None"

Pending(v) == [exc |-> "pending", val |-> v]

(***************************************************************************)
(* Each component is exercised by a specification of its own; the state of *)
(* the components a specification leaves out stays as it is here.          *)
(***************************************************************************)
LevelIdle == argXp = PyInt(0) /\ levelOut = Pending(PyInt(0))
ModelIdle == data = Payload("dict", Absent, Absent, NoLanguages) /\ built = Pending(NoStats)
FetchIdle ==
    /\ pc = "idle"
    /\ attempt_number = 0
    /\ response = Response("none", 0, NoBody)
    /\ transient = TRUE
    /\ last = Pending(NoStats)
    /\ outcome = Pending(NoStats)
LineIdle ==
    /\ line = [self |-> FormattedLine(<<>>, <<>>), separator |-> ":", width |-> 0]
    /\ rendered = Pending(<<>>)
FormatIdle ==
    /\ settings = Settings("level-xp", 10, 54)
    /\ stats = NoStats
    /\ formatted = Pending(<<>>)
GistIdle ==
    /\ gist = <<>>
    /\ calls = 0
    /\ call = NoCall
    /\ prevCall = NoCall
RunIdle == step = "idle" /\ exit_code = 0 - 1 /\ requests = <<>> /\ interrupted = FALSE

(***************************************************************************)
(* The levelOut calculator on its own: one call of calculate_level.           *)
(***************************************************************************)
MaxSmallXp == 24
MaxLevelProbe == 8

\* 1600 * L * L, the least xp of level L
LevelFloorXp(L) == 1600 * L * L

LevelInputs ==
    {PyInt(n) : n \in (0 - MaxSmallXp)..MaxSmallXp}
    \cup {PyInt(LevelFloorXp(L) + d) : L \in 1..MaxLevelProbe, d \in {0 - 1, 0, 1}}
    \cup {PyInt(1000000), PyInt(999999), PyInt(2147483647)}
    \cup {PyBig(BigFromDec(<<2,5,3,3,2,7,8,0,1,1,6,2,2,3,9,9>>)),
          PyBig(BigFromDec(<<2,5,3,3,2,7,8,0,1,1,6,2,2,4,0,0>>)),
          PyBig(BPow2(63)), PyBig(BPow2(1023)), PyBig(BPow2(1024))}

LevelInit == argXp \in LevelInputs /\ levelOut = Pending(PyInt(0))
    /\ ModelIdle /\ FetchIdle /\ LineIdle /\ FormatIdle /\ GistIdle /\ RunIdle

CalculateLevel ==
    /\ levelOut.exc = "pending"
    /\ levelOut' = calculate_level(argXp)
    /\ UNCHANGED <<argXp, modelVars, fetchVars, lineVars, formatVars, gistVars, runVars>>

LevelNext == CalculateLevel

SpecLevel == LevelInit /\ [][LevelNext]_vars

\* C10: calculate_level never raises on an integer, returns 0 for xp <= 0 and
\* otherwise the one L >= 0 with 1600*L*L <= xp < 1600*(L+1)*(L+1)
C10_LevelIsFloorOfFormula ==
    levelOut.exc # "pending" =>
        /\ levelOut.exc = "None"
        /\ ~levelOut.val.neg
        /\ IF argXp.neg
           THEN levelOut.val.mag = <<>>
           ELSE LET L  == levelOut.val.mag
                    L1 == BAdd(L, <<1>>)
                IN  /\ BLeq(BMul(<<1600>>, BMul(L, L)), argXp.mag)
                    /\ BLess(argXp.mag, BMul(<<1600>>, BMul(L1, L1)))

(***************************************************************************)
(* The statistics model on its own: UserStats.from_api_response on one     *)
(* payload mapping.                                                        *)
(***************************************************************************)
MaxLangs == 2

LangNames == << <<"A">>, <<"B">>, <<"C">>, <<"D">> >>

\* values a numeric field of the payload may hold
TotalXpValues == {Absent, PyInt(1600), PyOther("str"), PyOther("null")}
NewXpValues == {Absent, PyInt(7), PyOther("str")}
LangXpValues == {Absent, PyInt(500), PyOther("str")}
LangNewXpValues == {PyInt(0), PyOther("str")}

\* the mappings of n languages named LangNames[1..n]
RECURSIVE LangItemSeqs(_)
LangItemSeqs(n) ==
    IF n = 0 THEN {<<>>}
    ELSE {front \o <<LangData(LangNames[n], "dict", x, nx)>> :
            front \in LangItemSeqs(n - 1),
            x \in LangXpValues, nx \in LangNewXpValues}

\* the payload mappings with at most n languages
PayloadsUpTo(n) ==
    {Payload("dict", t, nx, LangsField("dict", items)) :
        t \in TotalXpValues, nx \in NewXpValues,
        items \in UNION {LangItemSeqs(k) : k \in 0..n}}
    \cup {Payload("dict", t, nx, NoLanguages) : t \in TotalXpValues, nx \in NewXpValues}

ModelPayloads == PayloadsUpTo(MaxLangs)

ModelInit == data \in ModelPayloads /\ built = Pending(NoStats)
    /\ LevelIdle /\ FetchIdle /\ LineIdle /\ FormatIdle /\ GistIdle /\ RunIdle

FromApiResponse ==
    /\ built.exc = "pending"
    /\ built' = UserStats_from_api_response("user", data)
    /\ UNCHANGED <<data, levelVars, fetchVars, lineVars, formatVars, gistVars, runVars>>

ModelNext == FromApiResponse

SpecModel == ModelInit /\ [][ModelNext]_vars

IsNumeric(field) == field.t \in {"int", "absent"}

\* some xp field of the payload holds a value that is not a number
HasNonNumeric(d) ==
    \/ ~IsNumeric(d.total_xp)
    \/ ~IsNumeric(d.new_xp)
    \/ \E i \in 1..Len(d.languages.items) :
          \/ ~IsNumeric(d.languages.items[i].xps)
          \/ ~IsNumeric(d.languages.items[i].new_xps)

\* C6: from_api_response on a payload with a non-numeric xp field fails with
\* DataValidationError
C6_NonNumericIsDataValidationError ==
    (built.exc # "pending" /\ HasNonNumeric(data)) => built.exc = "DataValidationError"

(***************************************************************************)
(* The fetch client on its own: one call of the decorated get_user_stats.  *)
(***************************************************************************)
TransportFailures == {"ReadTimeout", "ConnectError", "TooManyRedirects"}
StatusCodes == {200, 201, 403, 404, 500, 503}

\* bodies that parse as JSON but are not the documented mapping
OddBodies ==
    {Payload("list", Absent, Absent, NoLanguages),
     Payload("null", Absent, Absent, NoLanguages),
     Payload("dict", PyInt(1600), PyInt(0), LangsField("list", <<>>)),
     Payload("dict", PyInt(1600), PyInt(0), LangsField("null", <<>>)),
     Payload("dict", PyInt(1600), PyInt(0), LangsField("str", <<>>)),
     Payload("dict", PyInt(1600), PyInt(0), LangsField("int", <<>>)),
     Payload("dict", PyInt(1600), PyInt(0),
             LangsField("dict", <<LangData(<<"A">>, "null", Absent, Absent)>>)),
     Payload("dict", PyBig(BPow2(1024)), PyInt(0), NoLanguages)}

Bodies == {NoBody} \cup OddBodies \cup PayloadsUpTo(1)

Responses ==
    {Response(k, 0, NoBody) : k \in TransportFailures}
    \cup {Response("http", st, NoBody) : st \in StatusCodes \ (200..299)}
    \cup {Response("http", st, b) : st \in StatusCodes \cap (200..299), b \in Bodies}

FetchInit ==
    /\ pc = "call"
    /\ attempt_number = 0
    /\ response = Response("none", 0, NoBody)
    /\ transient = TRUE
    /\ last = Pending(NoStats)
    /\ outcome = Pending(NoStats)
    /\ LevelIdle /\ ModelIdle /\ LineIdle /\ FormatIdle /\ GistIdle /\ RunIdle

\* one read request and the run of the function body on what it met
Attempt ==
    /\ pc = "call"
    /\ \E resp \in Responses :
          /\ response' = resp
          /\ last' = get_user_stats("user", resp)
          /\ transient' = (transient /\ resp.kind \in {"ReadTimeout", "ConnectError"})
    /\ attempt_number' = attempt_number + 1
    /\ pc' = "check"
    /\ UNCHANGED <<outcome, levelVars, modelVars, lineVars, formatVars, gistVars, runVars>>

\* tenacity after a run: return the result, start another attempt, or
\* re-raise the exception of the last run (reraise=True)
AfterAttempt ==
    /\ pc = "check"
    /\ IF /\ last.exc # "None"
          /\ RetryIfExceptionType(last.exc)
          /\ attempt_number < StopAfterAttempt
       THEN pc' = "call" /\ UNCHANGED outcome
       ELSE pc' = "done" /\ outcome' = last
    /\ UNCHANGED <<attempt_number, response, transient, last, levelVars, modelVars,
                   lineVars, formatVars, gistVars, runVars>>

FetchNext == Attempt \/ AfterAttempt

SpecFetch == FetchInit /\ [][FetchNext]_vars

\* C1: when every request times out or loses the network, the call issues
\* exactly 3 requests and then fails with CodeStatsAPIError
C1_TransientFailuresAreRetried ==
    (pc = "done" /\ transient) =>
        attempt_number = StopAfterAttempt /\ outcome.exc = "CodeStatsAPIError"

Non2xx(resp) == resp.kind = "http" /\ resp.status \notin 200..299

\* C2: a non-2xx response ends the call with CodeStatsAPIError after exactly
\* one request; no attempt follows it
C2_Non2xxIsNotRetried ==
    /\ (pc = "done" /\ Non2xx(response)) =>
          attempt_number = 1 /\ outcome.exc = "CodeStatsAPIError"
    /\ (pc = "call" /\ attempt_number > 0) => ~Non2xx(response)

C2_Witness ==
    /\ pc = "done" /\ response.kind = "http" /\ response.status = 503
    /\ attempt_number = 1 /\ outcome.exc = "CodeStatsAPIError"

\* C5: whatever goes wrong, the caller sees CodeStatsAPIError and no other
\* exception
C5_OnlyCodeStatsAPIErrorEscapes ==
    pc = "done" => outcome.exc \in {"None", "CodeStatsAPIError"}

(***************************************************************************)
(* The line formatter on its own: one call of FormattedLine.format.        *)
(***************************************************************************)
MaxLineWidth == 12

LineTitles == {<<>>, <<"A">>, <<"G", "o">>, <<"T", "o", "t", "a", "l", " ", "X", "P">>}
LineValues == {<<>>, <<"7">>, <<"5", "0", "0", " ", "X", "P">>, <<"see-no-evil">>}

LineInit ==
    /\ line \in {[self |-> FormattedLine(t, v), separator |-> c, width |-> w] :
                   t \in LineTitles, v \in LineValues, c \in {":", "."},
                   w \in 0..MaxLineWidth}
    /\ rendered = Pending(<<>>)
    /\ LevelIdle /\ ModelIdle /\ FetchIdle /\ FormatIdle /\ GistIdle /\ RunIdle

Format ==
    /\ rendered.exc = "pending"
    /\ rendered' = Return(FormattedLine_format(line.self, line.separator, line.width))
    /\ UNCHANGED <<line, levelVars, modelVars, fetchVars, formatVars, gistVars, runVars>>

LineNext == Format

SpecLine == LineInit /\ [][LineNext]_vars

\* C9: the rendered line is the label, a space, N >= 1 separators with
\* N = max(width - len(label) - len(value) - 2, 1), a space and the value
C9_RenderedLineShape ==
    rendered.exc = "None" =>
        LET out   == rendered.val
            label == line.self.title
            value == line.self.value
            room  == line.width - Len(label) - Len(value) - 2
            N     == IF room > 1 THEN room ELSE 1
        IN  /\ Len(out) = Len(label) + 1 + N + 1 + Len(value)
            /\ SubSeq(out, 1, Len(label)) = label
            /\ out[Len(label) + 1] = " "
            /\ \A i \in 1..N : out[Len(label) + 1 + i] = line.separator
            /\ out[Len(label) + N + 2] = " "
            /\ SubSeq(out, Len(label) + N + 3, Len(out)) = value

\* a line whose label and value leave no room for a separator was rendered
C9_Witness ==
    /\ rendered.exc = "None"
    /\ Len(line.self.title) + Len(line.self.value) + 2 > line.width
    /\ Len(line.self.title) > 0 /\ Len(line.self.value) > 0
    /\ Len(rendered.val) = Len(line.self.title) + Len(line.self.value) + 3

(***************************************************************************)
(* The content formatter on its own: one call of format_content on the     *)
(* UserStats built from a well-formed payload.                             *)
(***************************************************************************)
MaxFormatLangs == 3
MaxTopCount == 2

StatsTypes == {"level-xp", "recent-xp", "xp"}
LineLengths == {40, 54}

\* (xps, new_xps) of one language
LangChoices == {<<500, 0>>, <<1000, 0>>, <<1000, 200>>, <<1500, 100>>}
TotalChoices == {<<0, 0>>, <<1104152, 1250>>}

RECURSIVE FormatLangItems(_)
FormatLangItems(n) ==
    IF n = 0 THEN {<<>>}
    ELSE {front \o <<LangData(LangNames[n], "dict", PyInt(c[1]), PyInt(c[2]))>> :
            front \in FormatLangItems(n - 1), c \in LangChoices}

FormatPayloads ==
    {Payload("dict", PyInt(t[1]), PyInt(t[2]), LangsField("dict", items)) :
        t \in TotalChoices,
        items \in UNION {FormatLangItems(k) : k \in 0..MaxFormatLangs}}

\* the statistics are the ones the model builds from a payload
FormatInit ==
    /\ \E p \in FormatPayloads : stats = UserStats_from_api_response("user", p).val
    /\ settings \in {Settings(m, k, w) :
                       m \in StatsTypes, k \in 1..MaxTopCount, w \in LineLengths}
    /\ formatted = Pending(<<>>)
    /\ LevelIdle /\ ModelIdle /\ FetchIdle /\ LineIdle /\ GistIdle /\ RunIdle

FormatContent ==
    /\ formatted.exc = "pending"
    /\ formatted' = Return(format_content(settings, stats))
    /\ UNCHANGED <<settings, stats, levelVars, modelVars, fetchVars, lineVars, gistVars, runVars>>

FormatNext == FormatContent

SpecFormat == FormatInit /\ [][FormatNext]_vars

\* the lines of a text, split at the newlines: line k runs from behind the
\* k-th break to before the next one
LinesOf(text) ==
    LET breaks == {0, Len(text) + 1} \cup {i \in 1..Len(text) : text[i] = "\n"}
        Break(k) == CHOOSE b \in breaks : Cardinality({c \in breaks : c < b}) = k - 1
    IN  [k \in 1..(Cardinality(breaks) - 1) |->
            SubSeq(text, Break(k) + 1, Break(k + 1) - 1)]

RenderedLine(l) == FormattedLine_format(l, ":", settings.max_line_length)

PlaceholderBlock ==
    [i \in 1..Len(NO_RECENT_ACTIVITY) |-> RenderedLine(NO_RECENT_ACTIVITY[i])]

NoRecentXp == \A i \in 1..Len(stats.languages) : ToInt(stats.languages[i].new_xp) = 0

\* C7 as stated: in recent-xp mode with no language having new xp, the output
\* is the four placeholder lines
C7_OutputIsPlaceholderBlock ==
    (formatted.exc = "None" /\ settings.stats_type = "recent-xp" /\ NoRecentXp) =>
        formatted.val = JoinLines(PlaceholderBlock)

\* C7 amended: in recent-xp mode with no language having new xp, the output
\* is the Total XP line followed by the four placeholder lines, whatever the
\* total xp
C7_PlaceholderFollowsTotalLine ==
    (formatted.exc = "None" /\ settings.stats_type = "recent-xp" /\ NoRecentXp) =>
        LET lines == LinesOf(formatted.val)
        IN  /\ Len(lines) = 5
            /\ SubSeq(lines[1], 1, 9) = <<"T", "o", "t", "a", "l", " ", "X", "P", " ">>
            /\ Tail(lines) = PlaceholderBlock

C7_Witness ==
    /\ formatted.exc = "None" /\ settings.stats_type = "recent-xp" /\ NoRecentXp
    /\ Len(stats.languages) = 2
    /\ ToInt(stats.total_xp) = 1104152
    /\ Len(LinesOf(formatted.val)) = 5

\* the languages a mode chooses among and the number it ranks them by
Candidates ==
    IF settings.stats_type = "recent-xp"
    THEN LET HasNewXp(lang) == ToInt(lang.new_xp) > 0
         IN  SelectSeq(stats.languages, HasNewXp)
    ELSE stats.languages

Metric(lang) ==
    IF settings.stats_type = "recent-xp" THEN ToInt(lang.new_xp) ELSE ToInt(lang.xp)

\* the place of candidate i: behind the candidates with a greater metric and
\* the earlier candidates with the same metric
Place(i) ==
    1 + Cardinality({j \in 1..Len(Candidates) :
                       \/ Metric(Candidates[j]) > Metric(Candidates[i])
                       \/ Metric(Candidates[j]) = Metric(Candidates[i]) /\ j < i})

TopCandidates ==
    LET n == IF settings.top_languages_count < Len(Candidates)
             THEN settings.top_languages_count ELSE Len(Candidates)
    IN  [r \in 1..n |-> Candidates[CHOOSE i \in 1..Len(Candidates) : Place(i) = r]]

IsLanguageLine(text) ==
    \E i \in 1..Len(stats.languages) :
        text = RenderedLine(_format_language_line(settings, stats.languages[i]))

\* C8: the language lines of the output are the first top_languages_count
\* candidates of the mode in descending order of its metric, ties in payload
\* order
C8_LanguageLinesAreTopCandidates ==
    formatted.exc = "None" =>
        LET lines == LinesOf(formatted.val)
            shown == SelectSeq(Tail(lines), IsLanguageLine)
        IN  /\ shown = [r \in 1..Len(TopCandidates) |->
                          RenderedLine(_format_language_line(settings, TopCandidates[r]))]
            /\ Len(shown) <= settings.top_languages_count
            /\ Candidates # <<>> => Len(lines) = 1 + Len(shown)

\* {A: 500, B: 1500, C: 1000} with a count of 2 was formatted: B, then C
C8_Witness ==
    /\ formatted.exc = "None"
    /\ settings.stats_type = "level-xp" /\ settings.top_languages_count = 2
    /\ Len(stats.languages) = 3
    /\ ToInt(stats.languages[1].xp) = 500
    /\ ToInt(stats.languages[2].xp) = 1500
    /\ ToInt(stats.languages[3].xp) = 1000
    /\ LET lines == LinesOf(formatted.val)
       IN  /\ Len(lines) = 3
           /\ lines[2][1] = "B"
           /\ lines[3][1] = "C"

(***************************************************************************)
(* The gist updater on its own: a few calls of update_gist in a row, with  *)
(* nobody else touching the gist.                                          *)
(***************************************************************************)
MaxCalls == 3

GistTitles == {"Top Languages", "Recent Languages"}
GistContents == {"cA", "cB"}
GistLabels == GistTitles \cup {"notes.md"}

\* the gists of up to two files with distinct names
Gists ==
    {<<>>}
    \cup {<<GistFile(l, b)>> : l \in GistLabels, b \in GistContents}
    \cup {two \in {<<GistFile(l1, b1), GistFile(l2, b2)>> :
                      l1 \in GistLabels, l2 \in GistLabels,
                      b1 \in GistContents, b2 \in GistContents} :
            two[1].label # two[2].label}

\* what get_gist or gist.edit can raise: nothing, or an error of the store
StoreFailures == {"None", "GithubException"}

GistInit ==
    /\ gist \in Gists
    /\ calls = 0
    /\ call = NoCall
    /\ prevCall = NoCall
    /\ LevelIdle /\ ModelIdle /\ FetchIdle /\ LineIdle /\ FormatIdle /\ RunIdle

UpdateGist ==
    /\ calls < MaxCalls
    /\ \E title \in GistTitles, content \in GistContents,
          get_gist_exc \in StoreFailures, edit_exc \in StoreFailures :
          LET r == update_gist(gist, title, content, get_gist_exc, edit_exc)
          IN  /\ gist' = r.files
              /\ call' = r.did
    /\ prevCall' = call
    /\ calls' = calls + 1
    /\ UNCHANGED <<levelVars, modelVars, fetchVars, lineVars, formatVars, runVars>>

GistNext == UpdateGist

SpecGist == GistInit /\ [][GistNext]_vars

Returned(c) == c.result \in {"True", "False"}

\* C3: a call that repeats the arguments of the call before it, which
\* returned, issues no write and, its read of the gist going through, returns
\* False
C3_SecondCallIsNoOp ==
    (calls >= 2 /\ Returned(prevCall)
        /\ call.title = prevCall.title /\ call.content = prevCall.content) =>
        /\ call.writes = 0
        /\ gist = call.before
        /\ call.fetched => call.result = "False"

\* a repeated call after a call that wrote to a gist of two files
C3_Witness ==
    /\ calls = 2 /\ prevCall.result = "True" /\ prevCall.writes = 1
    /\ call.title = prevCall.title /\ call.content = prevCall.content
    /\ call.result = "False" /\ call.writes = 0
    /\ Len(gist) = 2

\* C4: on a gist with a first file, a call whose read goes through returns
\* False without a write exactly when that file's body and label equal
\* content and title; otherwise it issues one write, which (unless the store
\* refuses it) puts title and content on the first file, and returns True.
\* No call reads or writes more than once.
C4_WritesExactlyWhenChanged ==
    calls >= 1 =>
        /\ call.reads <= 1 /\ call.writes <= 1
        /\ (call.before # <<>> /\ call.fetched) =>
              LET same == /\ call.before[1].body = call.content
                          /\ call.before[1].label = call.title
              IN  /\ (call.result = "False" /\ call.writes = 0) <=> same
                  /\ ~same =>
                        /\ call.reads = 1 /\ call.writes = 1
                        /\ \/ /\ call.result = "True"
                              /\ gist[1] = GistFile(call.title, call.content)
                           \/ /\ call.result = "GitHubAPIError"
                              /\ gist = call.before

C4_Witness ==
    /\ calls >= 1 /\ call.result = "True" /\ call.writes = 1 /\ call.reads = 1
    /\ call.before[1].body = call.content /\ call.before[1].label # call.title
    /\ gist[1] = GistFile(call.title, call.content)

(***************************************************************************)
(* One invocation of run, from Settings() to the exit code.  The settings, *)
(* the answer of the stats source and the gist are whatever the            *)
(* environment holds; a KeyboardInterrupt can be raised in every statement *)
(* of the try block.                                                       *)
(***************************************************************************)
RunSettings == {Settings(m, 2, 40) : m \in StatsTypes}

\* what Settings() can end with
SettingsOutcomes == {"None", "ValidationError", "KeyboardInterrupt"}

RunPayload ==
    Payload("dict", PyInt(1104152), PyInt(1250),
            LangsField("dict", <<LangData(<<"A">>, "dict", PyInt(500), PyInt(0)),
                                 LangData(<<"B">>, "dict", PyInt(1500), PyInt(100))>>))

\* a payload whose language carries a new_xps that is no number
RunOddPayload ==
    Payload("dict", PyInt(1600), PyInt(0),
            LangsField("dict", <<LangData(<<"A">>, "dict", PyInt(500), PyOther("str"))>>))

RunResponses ==
    {Response("ReadTimeout", 0, NoBody),
     Response("KeyboardInterrupt", 0, NoBody),
     Response("http", 404, NoBody),
     Response("http", 200, NoBody),
     Response("http", 200, Payload("list", Absent, Absent, NoLanguages)),
     Response("http", 200, RunPayload),
     Response("http", 200, RunOddPayload)}

\* the gist before the run: without a file, holding something else, or
\* holding already what a run on RunPayload produces
RunGists ==
    {<<>>,
     <<GistFile("notes.md", <<"o", "l", "d">>)>>,
     <<GistFile(GIST_TITLES("level-xp"), <<"o", "l", "d">>),
       GistFile("notes.md", <<"o", "l", "d">>)>>}
    \cup {<<GistFile(get_title(s),
                     format_content(s, UserStats_from_api_response("user", RunPayload).val))>> :
            s \in RunSettings}

\* what get_gist or gist.edit can raise during a run
RunStoreFailures == {"None", "GithubException", "KeyboardInterrupt"}

RunInit ==
    /\ step = "settings"
    /\ exit_code = 0 - 1
    /\ requests = <<>>
    /\ interrupted = FALSE
    /\ gist \in RunGists
    /\ calls = 0 /\ call = NoCall /\ prevCall = NoCall
    /\ pc = "idle"
    /\ attempt_number = 0
    /\ response = Response("none", 0, NoBody)
    /\ transient = TRUE
    /\ last = Pending(NoStats)
    /\ outcome = Pending(NoStats)
    /\ FormatIdle /\ LevelIdle /\ ModelIdle /\ LineIdle

\* settings = Settings()
LoadSettings ==
    /\ step = "settings"
    /\ \E e \in SettingsOutcomes, s \in RunSettings :
          /\ interrupted' = (e = "KeyboardInterrupt")
          /\ IF run_goes_on(e)
             THEN /\ settings' = s /\ step' = "fetch" /\ pc' = "call"
                  /\ UNCHANGED exit_code
             ELSE /\ step' = "done" /\ exit_code' = run_except(e)
                  /\ UNCHANGED <<settings, pc>>
    /\ UNCHANGED <<requests, attempt_number, response, transient, last, outcome,
                   stats, formatted, gistVars, levelVars, modelVars, lineVars>>

\* client.get_user_stats(): one read request and the run of the body on it
RunAttempt ==
    /\ step = "fetch" /\ pc = "call"
    /\ \E resp \in RunResponses :
          /\ response' = resp
          /\ last' = get_user_stats("user", resp)
          /\ transient' = (transient /\ resp.kind \in {"ReadTimeout", "ConnectError"})
          /\ interrupted' = (resp.kind = "KeyboardInterrupt")
    /\ attempt_number' = attempt_number + 1
    /\ requests' = Append(requests, "stats-read")
    /\ pc' = "check"
    /\ UNCHANGED <<step, exit_code, outcome, formatVars, gistVars, levelVars,
                   modelVars, lineVars>>

\* tenacity after the run of the body, and `stats = ...` or the except
\* clauses of run once get_user_stats has returned or raised
RunAfterAttempt ==
    /\ step = "fetch" /\ pc = "check"
    /\ IF /\ last.exc # "None"
          /\ RetryIfExceptionType(last.exc)
          /\ attempt_number < StopAfterAttempt
       THEN pc' = "call" /\ UNCHANGED <<outcome, stats, step, exit_code>>
       ELSE /\ pc' = "done" /\ outcome' = last
            /\ IF run_goes_on(last.exc)
               THEN stats' = last.val /\ step' = "format" /\ UNCHANGED exit_code
               ELSE step' = "done" /\ exit_code' = run_except(last.exc)
                    /\ UNCHANGED stats
    /\ UNCHANGED <<requests, interrupted, attempt_number, response, transient, last,
                   settings, formatted, gistVars, levelVars, modelVars, lineVars>>

\* title = formatter.get_title(); content = formatter.format_content(stats)
RunFormat ==
    /\ step = "format"
    /\ \E interrupt \in BOOLEAN :
          /\ interrupted' = interrupt
          /\ formatted' = IF interrupt THEN Raise("KeyboardInterrupt", <<>>)
                          ELSE formatter_format_content(settings, stats)
    /\ IF run_goes_on(formatted'.exc)
       THEN step' = "update" /\ UNCHANGED exit_code
       ELSE step' = "done" /\ exit_code' = run_except(formatted'.exc)
    /\ UNCHANGED <<requests, settings, stats, fetchVars, gistVars, levelVars,
                   modelVars, lineVars>>

\* was_updated = updater.update_gist(title, content); return 0
RunUpdate ==
    /\ step = "update"
    /\ \E get_gist_exc \in RunStoreFailures, edit_exc \in RunStoreFailures :
          LET r == update_gist(gist, get_title(settings), formatted.val,
                               get_gist_exc, edit_exc)
              raised == IF Returned(r.did) THEN "None" ELSE r.did.result
          IN  /\ gist' = r.files
              /\ call' = r.did
              /\ requests' = requests \o GistRequests(r.did)
              /\ interrupted' = (raised = "KeyboardInterrupt")
              /\ exit_code' = IF run_goes_on(raised) THEN 0 ELSE run_except(raised)
    /\ prevCall' = call
    /\ calls' = calls + 1
    /\ step' = "done"
    /\ UNCHANGED <<fetchVars, formatVars, levelVars, modelVars, lineVars>>

Next == LoadSettings \/ RunAttempt \/ RunAfterAttempt \/ RunFormat \/ RunUpdate

Spec == RunInit /\ [][Next]_vars

\* every step of the pipeline went through
RunCompleted ==
    /\ outcome.exc = "None"
    /\ formatted.exc = "None"
    /\ calls = 1 /\ Returned(call)

\* C11: run returns 0 exactly when fetch, format and update all went through
\* (the update having written or not), a non-zero code on every failure, and
\* 130, which no failure yields, when it was interrupted
C11_ExitCodes ==
    step = "done" =>
        /\ exit_code \in {0, 1, 130}
        /\ exit_code = 0 <=> RunCompleted
        /\ exit_code = 130 <=> interrupted

\* a run interrupted while the gist was being written
C11_Witness ==
    /\ step = "done" /\ exit_code = 130 /\ interrupted
    /\ call.result = "KeyboardInterrupt" /\ call.writes = 1

IsGistRequest(r) == r \in {"gist-read", "gist-write"}

\* the positions of the requests of one kind
RequestsOf(kind) == {i \in 1..Len(requests) : requests[i] = kind}

\* stats-source reads first, then at most one read of the gist, then at
\* most one write of it
RequestsInOrder ==
    /\ \A i \in RequestsOf("stats-read"), j \in 1..Len(requests) :
          IsGistRequest(requests[j]) => i < j
    /\ Cardinality(RequestsOf("gist-read")) <= 1
    /\ Cardinality(RequestsOf("gist-write")) <= 1
    /\ \A j \in RequestsOf("gist-write") : \E i \in RequestsOf("gist-read") : i < j

\* the fetch has returned the statistics and the content has been formatted
FetchedAndFormatted == outcome.exc = "None" /\ formatted.exc = "None"

\* C12: within one run the requests are stats-source reads, then a read of
\* the gist, then at most one write of it; the gist is contacted only once
\* the fetch has succeeded and the content is formatted, and no step taken
\* before that changes it; no stats-source read follows a request to the gist
C12_RequestOrder ==
    /\ [](/\ RequestsInOrder
          /\ (\E j \in 1..Len(requests) : IsGistRequest(requests[j])) => FetchedAndFormatted)
    /\ [][(\/ gist' # gist
            \/ (requests' # requests /\ IsGistRequest(requests'[Len(requests')])))
             => FetchedAndFormatted]_vars

\* a run that read the stats source, read the gist and wrote it
C12_Witness ==
    /\ step = "done" /\ exit_code = 0
    /\ requests = <<"stats-read", "gist-read", "gist-write">>
    /\ gist # call.before

====
